---- MODULE Spec2Model ----
(***************************************************************************)
(* Model of the CricketAuction frontend:                                   *)
(*   - apiFetch, the retrying fetch wrapper          (js/api.js)           *)
(*   - the live-auction page's auto-refresh loop     (js/live-auction.js)  *)
(*   - the chat page's persisted transcript          (js/chat.js)          *)
(* Each part has its own specification (SpecApi, SpecPoll, SpecChat); the  *)
(* variables of the other parts stay at their initial values.              *)
(***************************************************************************)
EXTENDS Integers, Sequences, FiniteSets, TLC

VARIABLES
    \* ---- apiFetch (one call) ----
    apiPc,          \* "idle" | "fetching" | "delaying" | "returned" | "thrown"
    attempt,        \* loop variable `attempt`
    lastError,      \* local `lastError`
    apiResult,      \* value returned / error thrown to the caller
    fetchLog,       \* what each fetch(url, config) of this call settled with
    delayLog,       \* the setTimeout delays this call has started
    hung,           \* the fetch now in flight never settles (environment)
    request,        \* url and config handed to fetch by the call in progress
    salePc,         \* sell-form submit handler: "none" | "awaiting" | "done"
    notes,          \* notifications shown by showError / showSuccess
    loaderShown,    \* `currentLoader` is set (the loading indicator is up)
    refreshes,      \* times the sell handler started the three loaders
    \* ---- recommender page ----
    recLoaded,      \* the recommender page's DOMContentLoaded handler has run
    currentTeam,    \* module variable `currentTeam` ("none" models null)
    allRecommendations, \* module variable `allRecommendations`: which load's data
    rendered,       \* which load's data #recommendations-container shows
    loads,          \* the loadRecommendations calls made, in order
    recErrors,      \* showError calls made by loadRecommendations
    selects,        \* selectTeam calls made after the page load
    \* ---- live-auction page ----
    pageLoaded,     \* DOMContentLoaded handler has run
    refreshInterval,\* module variable `refreshInterval` (0 models null)
    timers,         \* ids of interval timers that are active in the browser
    nextTimerId,    \* next id setInterval hands out
    startCalls,     \* number of startAutoRefresh calls so far
    stops,          \* number of stopAutoRefresh calls so far
    ticks,          \* number of interval callbacks run so far
    batches,        \* number of times the three loaders were started together
    inflight,       \* per resource: loader calls awaiting their API promise
    display,        \* per resource: what its container shows
    renderCount,    \* per resource: number of display* calls
    errorCount,     \* per resource: number of catch-branch runs
    \* ---- the interval timer's clock ----
    due,            \* ms until the interval timer is due; below 0 when overdue
    sinceTick,      \* ms since the interval callback last started (NoTick: never)
    lastGap,        \* sinceTick as it was when the callback last started
    unfinished,     \* callback runs whose three requests have not all settled
    \* ---- chat page ----
    chatLoaded,     \* the chat page's DOMContentLoaded handler has run
    chatHistory,    \* module variable `chatHistory`
    storage,        \* localStorage['chatHistory']
    pending,        \* sendMessage calls awaiting sendDirectChatRequest
    nextMsg,        \* number of the next message sent
    appended,       \* every entry pushed to the transcript since it was last empty
    saveFailures,   \* number of localStorage.setItem calls that threw
    reloads,        \* number of loads of the chat page
    clears,         \* number of clearChatHistory calls
    uncaught,       \* local-storage exceptions that left a transcript operation
    selectedTeam,   \* a team is selected (FALSE models null / the empty selector)
    backendAvailable, \* module variable `backendAvailable` of backend-direct.js
    checking        \* checkBackendAvailability's fetch is in flight

recVars  == <<recLoaded, currentTeam, allRecommendations, rendered, loads,
              recErrors, selects>>
apiVars  == <<apiPc, attempt, lastError, apiResult, fetchLog, delayLog, hung,
              request, salePc, notes, loaderShown, refreshes, recVars>>
cadenceVars == <<due, sinceTick, lastGap, unfinished>>
pollVars == <<pageLoaded, refreshInterval, timers, nextTimerId, startCalls, stops,
              ticks, batches, inflight, display, renderCount, errorCount, cadenceVars>>
chatVars == <<chatLoaded, chatHistory, storage, pending, nextMsg, appended,
              saveFailures, reloads, clears, uncaught,
              selectedTeam, backendAvailable, checking>>
vars     == <<apiVars, pollVars, chatVars>>

Min(a, b) == IF a < b THEN a ELSE b

RECURSIVE Pow2(_)
Pow2(n) == IF n = 0 THEN 1 ELSE 2 * Pow2(n - 1)

(***************************************************************************)
(*                              apiFetch                                   *)
(***************************************************************************)

\* const maxRetries = 3;
maxRetries == 3

\* HTTP statuses the backend answers with.
Statuses == {200, 201, 400, 404, 422, 499, 500, 503}

\* What the response body turns out to be when it is read:
\*   content-type application/json: an object with a `detail` field, an object
\*   with only a `message` field, an object with neither, the JSON value null,
\*   or text that response.json() rejects;
\*   any other content-type: non-empty text, empty text, or a body whose read
\*   (response.text()) rejects.
Bodies == {"json_detail", "json_message", "json_plain", "json_null",
           "json_malformed", "text", "text_empty", "unreadable"}

NetworkFailure == [net |-> TRUE, status |-> 0, body |-> "none"]

\* Everything one fetch(url, config) can settle with.
FetchOutcomes == {NetworkFailure} \cup
                 [net : {FALSE}, status : Statuses, body : Bodies]

NoError == [isAPIError |-> FALSE, status |-> -1, message |-> "none", data |-> "none"]

\* class APIError: message, status, data
APIError(message, status, data) ==
    [isAPIError |-> TRUE, status |-> status, message |-> message, data |-> data]

\* An exception that is not an APIError (TypeError, SyntaxError, ...).
JsError(message) ==
    [isAPIError |-> FALSE, status |-> -1, message |-> message, data |-> "none"]

\* response.ok
ResponseOk(status) == status >= 200 /\ status <= 299

\* The `data` the body-reading branch produces; "THROW" when the read rejects.
ParseBody(body) ==
    CASE body = "json_detail"    -> "detail"
      [] body = "json_message"   -> "message"
      [] body = "json_plain"     -> "plain"
      [] body = "json_null"      -> "null"
      [] body = "json_malformed" -> "THROW"
      [] body = "text"           -> "message"   \* { message: <text> }
      [] body = "text_empty"     -> "plain"     \* { message: '' }
      [] body = "unreadable"     -> "THROW"

ErrorMessageStatusOnly(data) == "http_error_status"

\* data.detail || data.message || `HTTP error! status: ${response.status}`
ErrorMessage(data) ==
    CASE data = "detail"  -> "detail"
      [] data = "message" -> "message"
      [] OTHER            -> "http_error_status"

\* The body of the try block for one settled fetch: what it returns or throws.
TryAttempt(o) ==
    IF o.net
    THEN [kind |-> "throw", err |-> JsError("fetch_failed")]
    ELSE LET data == ParseBody(o.body) IN
         IF data = "THROW"
         THEN [kind |-> "throw", err |-> JsError("body_read_failed")]
         ELSE IF ~ResponseOk(o.status)
              THEN IF data = "null"
                   THEN [kind |-> "throw", err |-> JsError("null_has_no_detail")]
                   ELSE [kind |-> "throw",
                         err |-> APIError(ErrorMessage(data), o.status, data)]
              ELSE [kind |-> "return", data |-> data]

\* error instanceof APIError && error.status >= 400 && error.status < 500
IsClientError(err) == err.isAPIError /\ err.status >= 400 /\ err.status < 500

BackoffDelayFlat(a) == 1000

\* Math.min(1000 * Math.pow(2, attempt - 1), 5000)
BackoffDelay(a) == Min(1000 * Pow2(a - 1), 5000)

FinalErrorNoWrap(err) == err

\* After the loop: rethrow an APIError, wrap anything else.
FinalError(err) ==
    IF err.isAPIError
    THEN err
    ELSE APIError("network_error_after_attempts", 0, "null")

\* ---- request construction ----

\* { ...a, ...b }: the keys of both, b's value where both have the key.
Spread(a, b) ==
    [k \in (DOMAIN a) \cup (DOMAIN b) |-> IF k \in DOMAIN b THEN b[k] ELSE a[k]]

NoHeaders == [k \in {} |-> "none"]

\* 'Content-Type': 'application/json', 'Accept': 'application/json'
DefaultHeaders == [k \in {"Content-Type", "Accept"} |-> "application/json"]

NoBody == [kind |-> "none", fields |-> NoHeaders]

\* The `options` argument: which of method / headers / body it carries.
Options(method, hasHeaders, headers, body) ==
    [method |-> method, hasHeaders |-> hasHeaders, headers |-> headers, body |-> body]

\* apiFetch(endpoint) with no options (API.getState and the other GET methods).
PlainOptions == Options("none", FALSE, NoHeaders, NoBody)

\* Options of callers that pass their own headers: one adds a header, one
\* overrides a default.
HeaderOptions ==
    { Options("none", TRUE, [k \in {"Authorization"} |-> "token"], NoBody),
      Options("none", TRUE, [k \in {"Accept"} |-> "text/plain"], NoBody) }

\* API.sellPlayer: method POST, body { player_name, team, price }
SellOptions(playerName, team, price) ==
    Options("POST", FALSE, NoHeaders,
            [kind |-> "object",
             fields |-> [player_name |-> playerName, team |-> team, price |-> price]])

MergedHeaders(options) == Spread(DefaultHeaders, options.headers)

\* The `config` object literal: method, the merged headers, credentials, and
\* then `...options`, whose own `headers` key (when present) replaces the
\* merged headers; an object body is then JSON.stringify-ed.
BuildConfig(options) ==
    [method      |-> IF options.method = "none" THEN "GET" ELSE options.method,
     headers     |-> IF options.hasHeaders
                     THEN options.headers
                     ELSE MergedHeaders(options),
     credentials |-> "omit",
     body        |-> IF options.body.kind = "object"
                     THEN [kind |-> "json", fields |-> options.body.fields]
                     ELSE options.body]

NoRequest == [url |-> "none", options |-> PlainOptions, config |-> BuildConfig(PlainOptions)]

\* const url = `${API_BASE_URL}${endpoint}` and the config built from options.
Request(endpoint, options) ==
    [url |-> endpoint, options |-> options, config |-> BuildConfig(options)]

\* Calls made directly (not through the sell form).
DirectCalls == {Request("/state", o) : o \in {PlainOptions} \cup HeaderOptions}

\* ---- recommender page: values ----

MaxSelects == 1     \* selectTeam calls explored after the page load

\* Two of the ten TEAMS.
Teams == {"CSK", "RCB"}

\* The groups loadRecommendations fetches: 'A', 'B', 'C'.
Groups == {"A", "B", "C"}

\* let allRecommendations = []; nothing rendered.  Otherwise the team the data
\* was fetched for and the loadRecommendations call that fetched it.
NoRecs == [team |-> "none", load |-> 0]

\* A loadRecommendations(team) call suspended at `await Promise.all([...])`:
\* the groups whose request is outstanding, whether a request has failed, and
\* the state of the Promise.all.
NewLoad(team) ==
    [team |-> team, waiting |-> Groups, failed |-> FALSE, state |-> "pending"]

\* The three containers the page keeps fresh: #auction-status (loadAuctionStatus),
\* #live-recommendations (loadLiveRecommendations), #recent-sales (loadRecentSales).
Resources == {"status", "recs", "sales"}

InitApi ==
    /\ apiPc = "idle"
    /\ attempt = 0
    /\ lastError = NoError
    /\ apiResult = [kind |-> "none"]
    /\ fetchLog = <<>>
    /\ delayLog = <<>>
    /\ hung = FALSE
    /\ request = NoRequest
    /\ salePc = "none"
    /\ notes = <<>>
    /\ loaderShown = FALSE
    /\ refreshes = [r \in Resources |-> 0]
    /\ recLoaded = FALSE
    /\ currentTeam = "none"
    /\ allRecommendations = NoRecs
    /\ rendered = NoRecs
    /\ loads = <<>>
    /\ recErrors = 0
    /\ selects = 0

\* apiFetch(endpoint, options) up to its first `await fetch(url, config)`.
ApiCall ==
    /\ apiPc = "idle"
    /\ apiPc' = "fetching"
    /\ attempt' = 1
    /\ \E h \in BOOLEAN : hung' = h
    /\ \E req \in DirectCalls : request' = req
    /\ UNCHANGED <<lastError, apiResult, fetchLog, delayLog>>
    /\ UNCHANGED <<salePc, notes, loaderShown, refreshes>>
    /\ UNCHANGED recVars
    /\ UNCHANGED <<pollVars, chatVars>>

\* The fetch in flight settles with o; the loop body runs to its next await,
\* return or throw.
FetchSettles(o) ==
    /\ apiPc = "fetching"
    /\ ~hung
    /\ fetchLog' = Append(fetchLog, o)
    /\ LET r == TryAttempt(o) IN
       IF r.kind = "return"
       THEN /\ apiPc' = "returned"
            /\ apiResult' = [kind |-> "value", data |-> r.data]
            /\ UNCHANGED <<lastError, delayLog>>
       ELSE /\ lastError' = r.err
            /\ IF IsClientError(r.err)
               THEN /\ apiPc' = "thrown"
                    /\ apiResult' = [kind |-> "error", err |-> r.err]
                    /\ UNCHANGED delayLog
               ELSE IF attempt < maxRetries
                    THEN /\ apiPc' = "delaying"
                         /\ delayLog' = Append(delayLog, BackoffDelay(attempt))
                         /\ UNCHANGED apiResult
                    ELSE /\ apiPc' = "thrown"
                         /\ apiResult' = [kind |-> "error", err |-> FinalError(r.err)]
                         /\ UNCHANGED delayLog
    /\ UNCHANGED <<attempt, hung>>
    /\ UNCHANGED <<request, salePc, notes, loaderShown, refreshes>>
    /\ UNCHANGED recVars
    /\ UNCHANGED <<pollVars, chatVars>>

\* The backoff timer fires: attempt++ and the next fetch is issued.
DelayElapses ==
    /\ apiPc = "delaying"
    /\ apiPc' = "fetching"
    /\ attempt' = attempt + 1
    /\ \E h \in BOOLEAN : hung' = h
    /\ UNCHANGED <<lastError, apiResult, fetchLog, delayLog>>
    /\ UNCHANGED <<request, salePc, notes, loaderShown, refreshes>>
    /\ UNCHANGED recVars
    /\ UNCHANGED <<pollVars, chatVars>>

\* ---- the sell form's submit handler (live-auction page) ----

\* What the form fields hold at submit; price 0 stands for every value whose
\* parseFloat is falsy (0, empty, non-numeric).
SaleForms == [playerName : {"", "Ravindra Jadeja"}, team : {"", "CSK"}, price : {0, 1450}]

Note(kind, text, detail) == [kind |-> kind, text |-> text, detail |-> detail]

FormCompleteNoPrice(form) == ~(form.playerName = "" \/ form.team = "")

\* if (!playerName || !team || !price) { showError(...); return; }
FormComplete(form) == ~(form.playerName = "" \/ form.team = "" \/ form.price = 0)

\* The submit listener up to `await API.sellPlayer(...)`: an incomplete form is
\* rejected with showError; otherwise showLoading and the POST is issued.
SubmitSale(form) ==
    /\ apiPc = "idle"
    /\ salePc = "none"
    /\ IF ~FormComplete(form)
       THEN /\ notes' = Append(notes, Note("error", "fill_all_fields", "none"))
            /\ salePc' = "done"
            /\ UNCHANGED <<apiPc, attempt, hung, request, loaderShown>>
       ELSE /\ loaderShown' = TRUE
            /\ request' = Request("/auction/sell",
                                  SellOptions(form.playerName, form.team, form.price))
            /\ apiPc' = "fetching"
            /\ attempt' = 1
            /\ \E h \in BOOLEAN : hung' = h
            /\ salePc' = "awaiting"
            /\ UNCHANGED notes
    /\ UNCHANGED <<lastError, apiResult, fetchLog, delayLog, refreshes>>
    /\ UNCHANGED recVars
    /\ UNCHANGED <<pollVars, chatVars>>

\* The submit listener after the await: showSuccess, the three loaders and
\* hideLoading when sellPlayer fulfilled; hideLoading and showError when it
\* rejected.
SaleResumes ==
    /\ salePc = "awaiting"
    /\ apiPc \in {"returned", "thrown"}
    /\ salePc' = "done"
    /\ loaderShown' = FALSE
    /\ IF apiPc = "returned"
       THEN /\ notes' = Append(notes, Note("success", "player_sold", "none"))
            /\ refreshes' = [r \in Resources |-> refreshes[r] + 1]
       ELSE /\ notes' = Append(notes, Note("error", "failed_to_record_sale",
                                           apiResult.err.message))
            /\ UNCHANGED refreshes
    /\ UNCHANGED <<apiPc, attempt, lastError, apiResult, fetchLog, delayLog, hung, request>>
    /\ UNCHANGED recVars
    /\ UNCHANGED <<pollVars, chatVars>>

\* ---- recommender page ----

AfterSettleIgnoringFailure(l, g, ok) ==
    LET rest == l.waiting \ {g} IN
    IF l.state # "pending"
    THEN [l EXCEPT !.waiting = rest]
    ELSE [team    |-> l.team,
          waiting |-> rest,
          failed  |-> l.failed \/ ~ok,
          state   |-> IF rest = {} THEN "fulfilled" ELSE "pending"]

\* Promise.all over the three group requests of load l when the request of
\* group g settles: it rejects at the first request that rejects, fulfils when
\* all three have fulfilled, and a settled Promise.all ignores later results.
AfterSettle(l, g, ok) ==
    LET rest == l.waiting \ {g} IN
    IF l.state # "pending"
    THEN [l EXCEPT !.waiting = rest]
    ELSE [team    |-> l.team,
          waiting |-> rest,
          failed  |-> l.failed \/ ~ok,
          state   |-> IF ~ok THEN "rejected"
                      ELSE IF rest = {} THEN "fulfilled"
                      ELSE "pending"]

\* DOMContentLoaded: loadTeamFromURL() calls selectTeam(team) with the URL's
\* team or TEAMS[0], which calls loadRecommendations(team); then, currentTeam
\* being set, the handler calls loadRecommendations(currentTeam) again.
RecPageLoad ==
    /\ ~recLoaded
    /\ recLoaded' = TRUE
    /\ \E team \in Teams :
          /\ currentTeam' = team
          /\ loads' = loads \o <<NewLoad(team), NewLoad(team)>>
    /\ loaderShown' = TRUE
    /\ UNCHANGED <<allRecommendations, rendered, recErrors, selects>>
    /\ UNCHANGED <<apiPc, attempt, lastError, apiResult, fetchLog, delayLog, hung,
                   request, salePc, notes, refreshes>>
    /\ UNCHANGED <<pollVars, chatVars>>

\* selectTeam(team), from a team button: currentTeam = team;
\* loadRecommendations(team) runs up to its await (showLoading first).
selectTeam(team) ==
    /\ recLoaded
    /\ selects < MaxSelects
    /\ selects' = selects + 1
    /\ currentTeam' = team
    /\ loads' = Append(loads, NewLoad(team))
    /\ loaderShown' = TRUE
    /\ UNCHANGED <<recLoaded, allRecommendations, rendered, recErrors>>
    /\ UNCHANGED <<apiPc, attempt, lastError, apiResult, fetchLog, delayLog, hung,
                   request, salePc, notes, refreshes>>
    /\ UNCHANGED <<pollVars, chatVars>>

\* The request of group g of load i settles.  When that settles the load's
\* Promise.all, loadRecommendations resumes: on fulfilment it assigns
\* allRecommendations, calls displayRecommendations (which renders, or throws
\* on data it cannot iterate and lands in the catch) and hideLoading; on
\* rejection the catch calls hideLoading and showError.
GroupSettles(i, g, ok, renderOk) ==
    /\ i \in 1..Len(loads)
    /\ g \in loads[i].waiting
    /\ LET l  == loads[i]
           l2 == AfterSettle(l, g, ok)
       IN
       /\ loads' = [loads EXCEPT ![i] = l2]
       /\ IF l.state = "pending" /\ l2.state = "fulfilled"
          THEN /\ allRecommendations' = [team |-> l.team, load |-> i]
               /\ loaderShown' = FALSE
               /\ IF renderOk
                  THEN rendered' = allRecommendations' /\ UNCHANGED recErrors
                  ELSE UNCHANGED rendered /\ recErrors' = recErrors + 1
          ELSE /\ renderOk
               /\ IF l.state = "pending" /\ l2.state = "rejected"
                  THEN loaderShown' = FALSE /\ recErrors' = recErrors + 1
                  ELSE UNCHANGED <<loaderShown, recErrors>>
               /\ UNCHANGED <<allRecommendations, rendered>>
    /\ UNCHANGED <<recLoaded, currentTeam, selects>>
    /\ UNCHANGED <<apiPc, attempt, lastError, apiResult, fetchLog, delayLog, hung,
                   request, salePc, notes, refreshes>>
    /\ UNCHANGED <<pollVars, chatVars>>

NextRec ==
    \/ RecPageLoad
    \/ \E team \in Teams : selectTeam(team)
    \/ \E i \in 1..Len(loads) : \E g \in Groups : \E ok \in BOOLEAN :
           \E renderOk \in BOOLEAN : GroupSettles(i, g, ok, renderOk)

\* ---- checkAPIHealth ----

\* Statuses the HEAD probe of /docs can be answered with.
ProbeStatuses == Statuses \cup {405}

\* The probe reads no body.
ProbeOutcomes == {NetworkFailure} \cup
                 [net : {FALSE}, status : ProbeStatuses, body : {"none"}]

\* fetch(`${API_BASE_URL}/docs`, { method: 'HEAD', credentials: 'omit' })
ProbeRequest ==
    [url |-> "/docs", options |-> PlainOptions,
     config |-> [method |-> "HEAD", headers |-> NoHeaders,
                 credentials |-> "omit", body |-> NoBody]]

HealthResultOkOnly(o) ==
    IF o.net
    THEN [kind |-> "value", data |-> FALSE]
    ELSE [kind |-> "value", data |-> ResponseOk(o.status)]

\* The try/catch of checkAPIHealth: response.ok || response.status === 405,
\* and false from the catch.
HealthResult(o) ==
    IF o.net
    THEN [kind |-> "value", data |-> FALSE]
    ELSE [kind |-> "value", data |-> (ResponseOk(o.status) \/ o.status = 405)]

\* checkAPIHealth() up to `await fetch(...)`.
HealthCall ==
    /\ apiPc = "idle"
    /\ apiPc' = "probing"
    /\ request' = ProbeRequest
    /\ \E h \in BOOLEAN : hung' = h
    /\ UNCHANGED <<attempt, lastError, apiResult, fetchLog, delayLog>>
    /\ UNCHANGED <<salePc, notes, loaderShown, refreshes>>
    /\ UNCHANGED recVars
    /\ UNCHANGED <<pollVars, chatVars>>

\* The probe's fetch settles with o and checkAPIHealth returns.
HealthSettles(o) ==
    /\ apiPc = "probing"
    /\ ~hung
    /\ apiPc' = "probed"
    /\ fetchLog' = Append(fetchLog, o)
    /\ apiResult' = HealthResult(o)
    /\ UNCHANGED <<attempt, lastError, delayLog, hung>>
    /\ UNCHANGED <<request, salePc, notes, loaderShown, refreshes>>
    /\ UNCHANGED recVars
    /\ UNCHANGED <<pollVars, chatVars>>

NextApi ==
    \/ ApiCall
    \/ \E o \in FetchOutcomes : FetchSettles(o)
    \/ DelayElapses
    \/ HealthCall
    \/ \E o \in ProbeOutcomes : HealthSettles(o)
    \/ \E form \in SaleForms : SubmitSale(form)
    \/ SaleResumes

(***************************************************************************)
(*                       live-auction page polling                         *)
(***************************************************************************)

MaxStarts  == 2     \* startAutoRefresh calls explored
MaxStops   == 2     \* stopAutoRefresh calls explored
MaxBatches == 2     \* times the three loaders are started together
MaxLate    == 1     \* quanta a due interval callback can be kept waiting
MaxUnfinished == 2  \* callback runs with requests still outstanding

\* const REFRESH_INTERVAL = 5000; // 5 seconds
REFRESH_INTERVAL == 5000

\* The clock advances in steps of half an interval.
Quantum == REFRESH_INTERVAL \div 2

\* sinceTick and lastGap before the interval callback has ever run.
NoTick == -1

\* display[r]: 0 = nothing rendered yet, n > 0 = the data of the n-th started
\* load, ErrorShown = the error paragraph.
ErrorShown == -1

TickLoadersAwaited == {"status"}

\* The loaders the interval callback calls; none is awaited, so each runs up to
\* its own `await API...` before the callback returns.
TickLoaders == Resources

\* Starting the loaders in L: each one issues its request and suspends.
StartLoaders(L) ==
    /\ batches' = batches + 1
    /\ inflight' = [r \in Resources |->
                      IF r \in L
                      THEN inflight[r] \cup {[gen |-> batches + 1, epoch |-> stops]}
                      ELSE inflight[r]]

StartResultNoGuard(ri, tm, nid) ==
    [ri |-> nid, tm |-> tm \cup {nid}, nid |-> nid + 1]

\* startAutoRefresh(): if (refreshInterval) return; refreshInterval = setInterval(...)
StartResult(ri, tm, nid) ==
    IF ri # 0
    THEN [ri |-> ri, tm |-> tm, nid |-> nid]
    ELSE [ri |-> nid, tm |-> tm \cup {nid}, nid |-> nid + 1]

StopResultKeepsHandle(ri, tm) == [ri |-> ri, tm |-> tm \ {ri}]

\* When the timer set by setInterval(..., REFRESH_INTERVAL) is first due: a full
\* interval after the setInterval call; a start call that returns early leaves
\* the running timer as it is.
ArmedDue(ri, d) == IF ri # 0 THEN d ELSE REFRESH_INTERVAL

\* How the host re-arms a repeating timer whose callback starts `late` ms after
\* it was due.  Hosts differ: the timer is re-initialised when the callback
\* runs (the next run is a full interval later), or the timer keeps its
\* nominal grid (the next run is due at the next multiple of the interval
\* after the time it had been due).
RearmModes == {"from_run", "from_schedule"}

Rearm(mode, late) ==
    IF mode = "from_run"
    THEN REFRESH_INTERVAL
    ELSE REFRESH_INTERVAL - (late % REFRESH_INTERVAL)

\* stopAutoRefresh(): if (refreshInterval) { clearInterval(...); refreshInterval = null }
StopResult(ri, tm) ==
    IF ri # 0
    THEN [ri |-> 0, tm |-> tm \ {ri}]
    ELSE [ri |-> ri, tm |-> tm]

InitPoll ==
    /\ pageLoaded = FALSE
    /\ refreshInterval = 0
    /\ timers = {}
    /\ nextTimerId = 1
    /\ startCalls = 0
    /\ stops = 0
    /\ ticks = 0
    /\ batches = 0
    /\ inflight = [r \in Resources |-> {}]
    /\ display = [r \in Resources |-> 0]
    /\ renderCount = [r \in Resources |-> 0]
    /\ errorCount = [r \in Resources |-> 0]
    /\ due = 0
    /\ sinceTick = NoTick
    /\ lastGap = NoTick
    /\ unfinished = 0

\* document.addEventListener('DOMContentLoaded', ...): the three loaders are
\* called, then startAutoRefresh().
DOMContentLoaded ==
    /\ ~pageLoaded
    /\ pageLoaded' = TRUE
    /\ StartLoaders(Resources)
    /\ LET s == StartResult(refreshInterval, timers, nextTimerId) IN
       /\ refreshInterval' = s.ri
       /\ timers' = s.tm
       /\ nextTimerId' = s.nid
    /\ startCalls' = startCalls + 1
    /\ due' = ArmedDue(refreshInterval, due)
    /\ UNCHANGED <<stops, ticks, display, renderCount, errorCount>>
    /\ UNCHANGED <<sinceTick, lastGap, unfinished>>
    /\ UNCHANGED <<apiVars, chatVars>>

\* A call of the global startAutoRefresh() after the page has loaded.
StartAutoRefresh ==
    /\ pageLoaded
    /\ startCalls < MaxStarts
    /\ LET s == StartResult(refreshInterval, timers, nextTimerId) IN
       /\ refreshInterval' = s.ri
       /\ timers' = s.tm
       /\ nextTimerId' = s.nid
    /\ startCalls' = startCalls + 1
    /\ due' = ArmedDue(refreshInterval, due)
    /\ UNCHANGED <<pageLoaded, stops, ticks, batches, inflight, display,
                   renderCount, errorCount>>
    /\ UNCHANGED <<sinceTick, lastGap, unfinished>>
    /\ UNCHANGED <<apiVars, chatVars>>

\* stopAutoRefresh(), from the beforeunload listener or called directly.
StopAutoRefresh ==
    /\ pageLoaded
    /\ stops < MaxStops
    /\ LET s == StopResult(refreshInterval, timers) IN
       /\ refreshInterval' = s.ri
       /\ timers' = s.tm
    /\ stops' = stops + 1
    /\ due' = 0
    /\ UNCHANGED <<pageLoaded, nextTimerId, startCalls, ticks, batches, inflight,
                   display, renderCount, errorCount>>
    /\ UNCHANGED <<sinceTick, lastGap, unfinished>>
    /\ UNCHANGED <<apiVars, chatVars>>

\* The callback of interval timer t runs (time left out: whenever the timer
\* exists).
Tick(t) ==
    /\ t \in timers
    /\ batches < MaxBatches
    /\ ticks' = ticks + 1
    /\ StartLoaders(TickLoaders)
    /\ UNCHANGED <<pageLoaded, refreshInterval, timers, nextTimerId, startCalls,
                   stops, display, renderCount, errorCount>>
    /\ UNCHANGED cadenceVars
    /\ UNCHANGED <<apiVars, chatVars>>

\* The API promise awaited by load f of resource r fulfils: display*(data) runs.
LoadSucceeds(r, f) ==
    /\ f \in inflight[r]
    /\ inflight' = [inflight EXCEPT ![r] = @ \ {f}]
    /\ display' = [display EXCEPT ![r] = f.gen]
    /\ renderCount' = [renderCount EXCEPT ![r] = @ + 1]
    /\ UNCHANGED <<pageLoaded, refreshInterval, timers, nextTimerId, startCalls,
                   stops, ticks, batches, errorCount>>
    /\ UNCHANGED cadenceVars
    /\ UNCHANGED <<apiVars, chatVars>>

\* The API promise awaited by load f of resource r rejects: the catch branch
\* runs (showError for status, the error paragraph for recs, console for sales).
LoadFails(r, f) ==
    /\ f \in inflight[r]
    /\ inflight' = [inflight EXCEPT ![r] = @ \ {f}]
    /\ display' = [display EXCEPT ![r] = IF r = "recs" THEN ErrorShown ELSE @]
    /\ errorCount' = [errorCount EXCEPT ![r] = @ + 1]
    /\ UNCHANGED <<pageLoaded, refreshInterval, timers, nextTimerId, startCalls,
                   stops, ticks, batches, renderCount>>
    /\ UNCHANGED cadenceVars
    /\ UNCHANGED <<apiVars, chatVars>>

\* ---- the interval timer with a clock ----
\* The callback's three requests are counted per run, not followed one by one.

\* A quantum of time goes by.  A due callback waits while the page's thread is
\* busy, at most MaxLate quanta.
TimePasses ==
    /\ pageLoaded
    /\ refreshInterval # 0 \/ (sinceTick # NoTick /\ sinceTick < REFRESH_INTERVAL)
    /\ refreshInterval # 0 => due > -(MaxLate * Quantum)
    /\ due' = IF refreshInterval # 0 THEN due - Quantum ELSE due
    /\ sinceTick' = IF sinceTick = NoTick THEN NoTick
                    ELSE Min(sinceTick + Quantum, REFRESH_INTERVAL)
    /\ UNCHANGED <<pageLoaded, refreshInterval, timers, nextTimerId, startCalls,
                   stops, ticks, batches, inflight, display, renderCount, errorCount>>
    /\ UNCHANGED <<lastGap, unfinished>>
    /\ UNCHANGED <<apiVars, chatVars>>

\* The callback of interval timer t runs once the timer is due: the three
\* loaders issue their requests and the host re-arms the timer.
TimedTick(t, mode) ==
    /\ t \in timers
    /\ due <= 0
    /\ unfinished < MaxUnfinished
    /\ unfinished' = unfinished + 1
    /\ lastGap' = sinceTick
    /\ sinceTick' = 0
    /\ due' = Rearm(mode, -due)
    /\ UNCHANGED <<pageLoaded, refreshInterval, timers, nextTimerId, startCalls,
                   stops, ticks, batches, inflight, display, renderCount, errorCount>>
    /\ UNCHANGED <<apiVars, chatVars>>

\* The last of the three requests of one callback run settles.
FetchesComplete ==
    /\ unfinished > 0
    /\ unfinished' = unfinished - 1
    /\ UNCHANGED <<pageLoaded, refreshInterval, timers, nextTimerId, startCalls,
                   stops, ticks, batches, inflight, display, renderCount, errorCount>>
    /\ UNCHANGED <<due, sinceTick, lastGap>>
    /\ UNCHANGED <<apiVars, chatVars>>

NextCadence ==
    \/ DOMContentLoaded
    \/ StartAutoRefresh
    \/ StopAutoRefresh
    \/ TimePasses
    \/ \E t \in timers : \E mode \in RearmModes : TimedTick(t, mode)
    \/ FetchesComplete

NextPoll ==
    \/ DOMContentLoaded
    \/ StartAutoRefresh
    \/ StopAutoRefresh
    \/ \E t \in timers : Tick(t)
    \/ \E r \in Resources : \E f \in inflight[r] : LoadSucceeds(r, f)
    \/ \E r \in Resources : \E f \in inflight[r] : LoadFails(r, f)


(***************************************************************************)
(*                        chat page transcript                             *)
(***************************************************************************)

MaxMsgs         == 2    \* sendMessage calls explored
MaxPending      == 2    \* sendMessage calls awaiting a reply at once
MaxSaveFailures == 1    \* localStorage.setItem calls that throw
MaxLoads        == 1    \* loads of the chat page (the first one and reloads)
MaxClears       == 1    \* clearChatHistory calls explored
MaxUncaught     == 1    \* localStorage.getItem / removeItem calls that throw

\* chatHistory.slice(-50)
HistoryCap == 50

UserEntry(n)           == [role |-> "user", n |-> n, src |-> "user"]
AssistantEntry(n, src) == [role |-> "assistant", n |-> n, src |-> src]

\* A JSON array element that is not a {role, content} object.
JunkEntry == [role |-> "none", n |-> 0, src |-> "junk"]

\* What sendDirectChatRequest resolves with: the backend's reply, an
\* "Error from backend" text, or one of the two "offline" texts.  It never rejects.
ReplySources == {"backend", "error", "offline"}

\* The transcript k successful exchanges of an earlier session leave behind.
RECURSIVE Exchanges(_)
Exchanges(k) ==
    IF k = 0 THEN <<>>
    ELSE Exchanges(k - 1) \o <<UserEntry(k), AssistantEntry(k, "backend")>>

\* Exchanges of earlier sessions the page may start with.
PriorExchanges == {1, (HistoryCap \div 2) - 1, HistoryCap \div 2}

\* Number of the first message of this run.
FirstMsg == (HistoryCap \div 2) + 1

\* The in-memory value of `chatHistory`: an array, or (after loading JSON that
\* is not an array) a value without push/forEach.
ArrayValue(items) == [arr |-> TRUE, items |-> items]
NonArrayValue     == [arr |-> FALSE, items |-> <<>>]

\* localStorage['chatHistory']: absent (getItem gives null), the empty string,
\* text that is not JSON, JSON that is not an array, or a JSON array.
Absent        == [kind |-> "absent", items |-> <<>>]
EmptyText     == [kind |-> "empty", items |-> <<>>]
Garbage       == [kind |-> "garbage", items |-> <<>>]
NonListJson   == [kind |-> "nonlist", items |-> <<>>]
ListJson(items) == [kind |-> "list", items |-> items]

\* JSON.stringify(array)
JSONstringify(items) == ListJson(items)

\* JSON.parse(text): "THROW" for a SyntaxError.
JSONparse(text) ==
    CASE text.kind = "list"    -> [kind |-> "value", value |-> ArrayValue(text.items)]
      [] text.kind = "nonlist" -> [kind |-> "value", value |-> NonArrayValue]
      [] OTHER                 -> [kind |-> "THROW", value |-> NonArrayValue]

\* array.slice(-n)
LastN(items, n) ==
    IF Len(items) <= n THEN items
    ELSE SubSeq(items, Len(items) - n + 1, Len(items))

RecentHistoryAll(items) == items

RecentHistoryOddCap(items) == LastN(items, HistoryCap - 1)

\* const recentHistory = chatHistory.slice(-50);
RecentHistory(items) == LastN(items, HistoryCap)

InitialStorage ==
    {Absent, EmptyText, Garbage, NonListJson, ListJson(<<JunkEntry>>)}
    \cup {ListJson(Exchanges(k)) : k \in PriorExchanges}

InitChat ==
    /\ chatLoaded = FALSE
    /\ chatHistory = ArrayValue(<<>>)
    /\ storage \in InitialStorage
    /\ pending = {}
    /\ nextMsg = FirstMsg
    /\ appended = storage.items
    /\ saveFailures = 0
    /\ reloads = 0
    /\ clears = 0
    /\ uncaught = 0
    /\ selectedTeam = FALSE
    /\ backendAvailable = FALSE
    /\ checking = FALSE

\* The value chatHistory has after initializeChatInterface's load block.
LoadedHistory(saved) ==
    IF saved.kind \in {"absent", "empty"}
    THEN ArrayValue(<<>>)                      \* if (savedHistory) is false
    ELSE LET p == JSONparse(saved) IN
         IF p.kind = "THROW"
         THEN ArrayValue(<<>>)                 \* caught; chatHistory untouched
         ELSE p.value                          \* assigned before displayChatHistory

\* The chat page loads (or is reloaded): module state starts afresh, replies to
\* the old page's requests are never delivered, initializeChatInterface runs.
\* localStorage.getItem may throw (storage access denied); the call is outside
\* the try, so the exception leaves initializeChatInterface with chatHistory
\* still the fresh [].
ChatPageLoad ==
    /\ reloads < MaxLoads
    /\ reloads' = reloads + 1
    /\ chatLoaded' = TRUE
    /\ pending' = {}
    /\ \E getThrows \in BOOLEAN :
          IF getThrows
          THEN /\ uncaught < MaxUncaught
               /\ uncaught' = uncaught + 1
               /\ chatHistory' = ArrayValue(<<>>)
               /\ selectedTeam' = FALSE      \* loadTeamFromURL is never reached
          ELSE /\ chatHistory' = LoadedHistory(storage)
               /\ UNCHANGED uncaught
               /\ \E team \in BOOLEAN : selectedTeam' = team   \* loadTeamFromURL
    /\ backendAvailable' = FALSE
    /\ checking' = TRUE
    /\ UNCHANGED <<storage, nextMsg, appended, saveFailures, clears>>
    /\ UNCHANGED <<apiVars, pollVars>>

\* The team selector's change handler: a team is chosen, or "Select Team".
SelectTeam(team) ==
    /\ chatLoaded
    /\ team # selectedTeam
    /\ selectedTeam' = team
    /\ UNCHANGED <<chatLoaded, chatHistory, storage, pending, nextMsg, appended,
                   saveFailures, reloads, clears, uncaught, backendAvailable, checking>>
    /\ UNCHANGED <<apiVars, pollVars>>

\* checkBackendAvailability's fetch of /state settles: backendAvailable becomes
\* response.ok, or false when the fetch rejected.
BackendCheckSettles(ok) ==
    /\ checking
    /\ checking' = FALSE
    /\ backendAvailable' = ok
    /\ UNCHANGED <<chatLoaded, chatHistory, storage, pending, nextMsg, appended,
                   saveFailures, reloads, clears, uncaught, selectedTeam>>
    /\ UNCHANGED <<apiVars, pollVars>>

IssuesChatRequestAlways(available) == TRUE

\* sendDirectChatRequest: if (!backendAvailable) return {... source: "offline"}
\* before any fetch; otherwise POST /chat is issued.
IssuesChatRequest(available) == available

\* The end of sendMessage's try block for message n answered from src:
\* chatHistory.push(user, assistant); saveChatHistory() (setItem succeeds, or
\* throws and is caught).  When chatHistory is not an array, push throws a
\* TypeError that sendMessage catches, and nothing is saved.
PushAndSave(n, src, saveOk) ==
    IF ~chatHistory.arr
    THEN /\ saveOk
         /\ UNCHANGED <<chatHistory, storage, appended, saveFailures>>
    ELSE LET items == chatHistory.items \o <<UserEntry(n), AssistantEntry(n, src)>> IN
         /\ chatHistory' = ArrayValue(items)
         /\ appended' = appended \o <<UserEntry(n), AssistantEntry(n, src)>>
         /\ IF saveOk
            THEN /\ storage' = JSONstringify(RecentHistory(items))
                 /\ UNCHANGED saveFailures
            ELSE /\ saveFailures < MaxSaveFailures
                 /\ saveFailures' = saveFailures + 1
                 /\ UNCHANGED storage

\* sendMessage(message) with a non-empty message, up to the first point where
\* it gives up control: with no team it returns after prompting for one; with
\* the backend marked unavailable sendDirectChatRequest returns its "offline"
\* answer without a fetch and the rest of sendMessage follows at once; otherwise
\* POST /chat is in flight.
SendMessage ==
    /\ chatLoaded
    /\ nextMsg < FirstMsg + MaxMsgs
    /\ nextMsg' = nextMsg + 1
    /\ IF ~selectedTeam
       THEN UNCHANGED <<pending, chatHistory, storage, appended, saveFailures>>
       ELSE IF ~IssuesChatRequest(backendAvailable)
            THEN /\ \E saveOk \in BOOLEAN : PushAndSave(nextMsg, "offline", saveOk)
                 /\ UNCHANGED pending
            ELSE /\ Cardinality(pending) < MaxPending
                 /\ pending' = pending \cup {nextMsg}
                 /\ UNCHANGED <<chatHistory, storage, appended, saveFailures>>
    /\ UNCHANGED <<chatLoaded, reloads, clears, uncaught, selectedTeam,
                   backendAvailable, checking>>
    /\ UNCHANGED <<apiVars, pollVars>>

\* The POST /chat of message n settles and sendDirectChatRequest resolves: the
\* backend's reply, "Error from backend" for a non-ok status, or "Failed to
\* connect" (source "offline") when the fetch or the body read rejected.
ChatResponds(n, src, saveOk) ==
    /\ n \in pending
    /\ pending' = pending \ {n}
    /\ PushAndSave(n, src, saveOk)
    /\ UNCHANGED <<chatLoaded, nextMsg, reloads, clears, uncaught, selectedTeam,
                   backendAvailable, checking>>
    /\ UNCHANGED <<apiVars, pollVars>>

ClearResultMemoryOnly(st, removeThrows) == [history |-> ArrayValue(<<>>), storage |-> st]

\* chatHistory = []; localStorage.removeItem('chatHistory');  When removeItem
\* throws, the assignment has already happened and the key stays.
ClearResult(st, removeThrows) ==
    [history |-> ArrayValue(<<>>), storage |-> IF removeThrows THEN st ELSE Absent]

\* clearChatHistory(); removeItem is not inside a try, so its exception leaves
\* the function.
ClearChatHistory ==
    /\ chatLoaded
    /\ clears < MaxClears
    /\ clears' = clears + 1
    /\ \E removeThrows \in BOOLEAN :
          /\ IF removeThrows
             THEN uncaught < MaxUncaught /\ uncaught' = uncaught + 1
             ELSE UNCHANGED uncaught
          /\ LET c == ClearResult(storage, removeThrows) IN
             /\ chatHistory' = c.history
             /\ storage' = c.storage
    /\ appended' = <<>>
    /\ UNCHANGED <<chatLoaded, pending, nextMsg, saveFailures, reloads,
                   selectedTeam, backendAvailable, checking>>
    /\ UNCHANGED <<apiVars, pollVars>>

NextChat ==
    \/ ChatPageLoad
    \/ SendMessage
    \/ \E n \in pending : \E src \in ReplySources : \E saveOk \in BOOLEAN :
           ChatResponds(n, src, saveOk)
    \/ ClearChatHistory
    \/ \E team \in BOOLEAN : SelectTeam(team)
    \/ \E ok \in BOOLEAN : BackendCheckSettles(ok)

(***************************************************************************)
(*                           specifications                                *)
(***************************************************************************)

InitAll == InitApi /\ InitPoll /\ InitChat

\* apiFetch alone and the live-auction page alone: the chat page's storage is
\* left absent.
InitNoHistory == InitAll /\ storage = Absent

SpecApi  == InitNoHistory /\ [][NextApi]_vars
SpecPoll == InitNoHistory /\ [][NextPoll]_vars
SpecChat == InitAll /\ [][NextChat]_vars

\* The backoff timer always fires and a fetch that settles at all is delivered;
\* a hung fetch enables nothing.
SpecCadence == InitNoHistory /\ [][NextCadence]_vars
SpecRec == InitNoHistory /\ [][NextRec]_vars

FairSpecApi == SpecApi /\ WF_vars(NextApi)

(***************************************************************************)
(*                          apiFetch properties                            *)
(***************************************************************************)

IsClientStatus(o) == ~o.net /\ o.status >= 400 /\ o.status <= 499
IsServerStatus(o) == ~o.net /\ o.status >= 500
ApiDone == apiPc \in {"returned", "thrown"}

\* C1: a call whose first response has a status in 400..499 fails on that
\* attempt: exactly one fetch, no backoff delay, and the call has thrown.
C1_ClientErrorIsTerminal ==
    (Len(fetchLog) >= 1 /\ IsClientStatus(fetchLog[1]))
        => (Len(fetchLog) = 1 /\ delayLog = <<>> /\ apiPc = "thrown")

\* C2: when every attempt so far ended in a network failure or a status >= 500,
\* at most maxRetries fetches have been made, one delay was waited before each
\* retry, each delay is strictly greater than the one before, and none exceeds
\* 5000 ms.
C2_BoundedIncreasingBackoff ==
    (\A i \in 1..Len(fetchLog) : fetchLog[i].net \/ IsServerStatus(fetchLog[i]))
        => /\ Len(fetchLog) <= maxRetries
           /\ attempt <= maxRetries
           /\ apiPc = "fetching" => Len(delayLog) = attempt - 1
           /\ Len(fetchLog) >= 1 => Len(delayLog) >= Len(fetchLog) - 1
           /\ \A i \in 1..Len(delayLog) : delayLog[i] <= 5000
           /\ \A i \in 1..(Len(delayLog) - 1) : delayLog[i] < delayLog[i + 1]

C2_Witness ==
    /\ apiPc = "thrown"
    /\ Len(fetchLog) = maxRetries
    /\ fetchLog[1].net /\ IsServerStatus(fetchLog[2]) /\ fetchLog[3].net
    /\ delayLog = <<1000, 2000>>

\* The call used every attempt and the last one was not a terminal client error.
Exhausted ==
    /\ apiPc = "thrown"
    /\ Len(fetchLog) = maxRetries
    /\ ~IsClientError(lastError)

\* C3 as stated: whenever all retries are exhausted, the surfaced failure's
\* message says that repeated attempts were made.
C3_ExhaustionNamesAttempts ==
    Exhausted => apiResult.err.message = "network_error_after_attempts"

\* C3 as amended: when all retries are exhausted and the last attempt raised no
\* APIError, the failure is the status-0 error whose message names the attempts;
\* when the last attempt raised an APIError, that error is surfaced unchanged.
\* Either way its status is outside 400..499.
C3_ExhaustionSurfacesLastError ==
    Exhausted =>
        /\ ~lastError.isAPIError =>
               apiResult.err = APIError("network_error_after_attempts", 0, "null")
        /\ lastError.isAPIError => apiResult.err = lastError
        /\ ~(apiResult.err.status >= 400 /\ apiResult.err.status <= 499)

C3_Witness ==
    /\ Exhausted
    /\ fetchLog[maxRetries].net
    /\ apiResult.err.status = 0

\* C10: every attempt that is waiting for its fetch eventually ends, so the
\* call returns or throws.
C10_CallTerminates == (apiPc = "fetching") ~> ApiDone

\* C11: checkAPIHealth returns a boolean and never throws: true when the probe
\* got a 2xx status or 405, false when the connection failed.
C11_HealthProbeResult ==
    apiPc = "probed" =>
        /\ apiResult.kind = "value"
        /\ apiResult.data \in BOOLEAN
        /\ (~fetchLog[1].net /\ (fetchLog[1].status \in 200..299 \/ fetchLog[1].status = 405))
               => apiResult.data = TRUE
        /\ fetchLog[1].net => apiResult.data = FALSE

C11_Witness ==
    /\ apiPc = "probed"
    /\ ~fetchLog[1].net
    /\ fetchLog[1].status = 405
    /\ apiResult.data = TRUE

\* Bodies that arrive and are not JSON, whatever the Content-Type says.
NonJsonBodies == {"text", "text_empty", "json_malformed"}

IsSuccessStatus(o) == ~o.net /\ o.status >= 200 /\ o.status <= 299

\* C12: a response with a success status and a body that is not JSON ends the
\* call on that attempt with a success value wrapping the text: no failure, no
\* delay, no further fetch.
C12_NonJsonBodyWrapped ==
    \A i \in 1..Len(fetchLog) :
        (IsSuccessStatus(fetchLog[i]) /\ fetchLog[i].body \in NonJsonBodies)
            => /\ i = Len(fetchLog)
               /\ apiPc = "returned"
               /\ apiResult.kind = "value"
               /\ apiResult.data \in {"message", "plain"}
               /\ Len(delayLog) = i - 1

SaleSent ==
    \/ salePc = "awaiting"
    \/ salePc = "done" /\ notes[Len(notes)].text # "fill_all_fields"

\* C14: a submitted sale is sent as POST /auction/sell with body
\* {player_name, team, price}; when the response is 200 or 201 the handler
\* shows a success notification; when it is 422 with a detail the handler
\* shows a failure notification carrying that detail after exactly one fetch.
C14_SaleNotified ==
    /\ SaleSent =>
           /\ request.url = "/auction/sell"
           /\ request.config.method = "POST"
           /\ request.config.body.kind = "json"
           /\ DOMAIN request.config.body.fields = {"player_name", "team", "price"}
    /\ (SaleSent /\ salePc = "done") =>
           /\ (~fetchLog[1].net /\ fetchLog[1].status \in {200, 201}) =>
                  notes[Len(notes)].kind = "success"
           /\ (~fetchLog[1].net /\ fetchLog[1].status = 422
                  /\ fetchLog[1].body = "json_detail") =>
                  /\ Len(fetchLog) = 1
                  /\ notes[Len(notes)] = Note("error", "failed_to_record_sale", "detail")

\* C16: when the caller passes headers, the request carries every default
\* header the caller did not override, and every caller header with the
\* caller's value.
C16_HeadersMerged ==
    (apiPc # "idle" /\ request.options.hasHeaders) =>
        /\ \A k \in DOMAIN DefaultHeaders :
               /\ k \in DOMAIN request.config.headers
               /\ k \notin DOMAIN request.options.headers =>
                      request.config.headers[k] = DefaultHeaders[k]
        /\ \A k \in DOMAIN request.options.headers :
               /\ k \in DOMAIN request.config.headers
               /\ request.config.headers[k] = request.options.headers[k]

\* C21: in an apiFetch call, an attempt that gets a success status whose body
\* arrived is the last one: the call has returned that body's parsed value and
\* no delay or fetch follows it.  (The attempts before it failed and were
\* retried, so nothing of them is surfaced.)
C21_SuccessAfterRetriesReturns ==
    apiPc \notin {"probing", "probed"} =>
        \A i \in 1..Len(fetchLog) :
            (IsSuccessStatus(fetchLog[i]) /\ fetchLog[i].body # "unreadable") =>
                /\ i = Len(fetchLog)
                /\ Len(delayLog) = i - 1
                /\ apiPc = "returned"
                /\ apiResult.kind = "value"
                /\ fetchLog[i].body = "json_detail" => apiResult.data = "detail"
                /\ fetchLog[i].body \in {"json_message", "text"} => apiResult.data = "message"
                /\ fetchLog[i].body \in {"json_plain", "text_empty"} => apiResult.data = "plain"
                /\ fetchLog[i].body = "json_null" => apiResult.data = "null"

\* C22: the status-0 "Network error after 3 attempts" error is surfaced only
\* when the final attempt got no HTTP response; when the final attempt got a
\* response, the call ends with a value or with an error of that response's
\* status.
C22_NetworkErrorOnlyWithoutResponse ==
    (apiPc = "thrown" /\ Len(fetchLog) >= 1) =>
        LET o == fetchLog[Len(fetchLog)] IN
        /\ apiResult.err.status = 0 => o.net
        /\ ~o.net => apiResult.err.status = o.status

\* C23: for each polled resource, a rendering never replaces the rendering of
\* a fetch that was initiated later, and once nothing is in flight and no fetch
\* of the resource has failed the container shows the most recently initiated
\* fetch.
C23_LaterFetchNotOverwritten ==
    [][\A r \in Resources :
          /\ (display[r] > 0 /\ display'[r] > 0) => display'[r] >= display[r]
          /\ (inflight'[r] = {} /\ errorCount'[r] = 0 /\ batches' >= 1) =>
                 display'[r] = batches']_vars

\* C30: a sell-form submission with a missing player name, missing team or
\* zero / non-numeric price issues no request; no refresh starts before the
\* sale's response has been received; a sale that failed has started no
\* refresh; a sale that succeeded has started exactly one refresh of each of
\* the three resources.
C30_SaleRefreshes ==
    /\ SaleSent =>
           /\ request.config.body.fields.player_name # ""
           /\ request.config.body.fields.team # ""
           /\ request.config.body.fields.price # 0
    /\ (salePc = "done" /\ ~SaleSent) =>
           /\ request.url # "/auction/sell"
           /\ \A r \in Resources : refreshes[r] = 0
    /\ salePc \in {"none", "awaiting"} => \A r \in Resources : refreshes[r] = 0
    /\ (salePc = "done" /\ SaleSent /\ apiPc = "thrown") =>
           \A r \in Resources : refreshes[r] = 0
    /\ (salePc = "done" /\ SaleSent /\ apiPc = "returned") =>
           /\ \A r \in Resources : refreshes[r] = 1
           /\ IsSuccessStatus(fetchLog[Len(fetchLog)])

C30_Witness ==
    /\ salePc = "done"
    /\ apiPc = "returned"
    /\ Len(fetchLog) = 2
    /\ \A r \in Resources : refreshes[r] = 1

\* C27: the loading indicator is up whenever some operation that called
\* showLoading has not yet called hideLoading.
C27_LoaderCoversAllOperations ==
    (\E i \in 1..Len(loads) : loads[i].state = "pending") => loaderShown

\* C28: once every load has settled successfully, allRecommendations holds
\* the data fetched for currentTeam.
C28_DataOfCurrentTeam ==
    (recLoaded /\ recErrors = 0 /\ \A i \in 1..Len(loads) : loads[i].state = "fulfilled")
        => allRecommendations.team = currentTeam

\* C29: a load whose group request fails leaves allRecommendations and the
\* rendering as they were and shows one error notification, however many of
\* its requests fail; allRecommendations and the rendering are replaced only
\* by a load all three of whose requests succeeded.
C29_LoadAllOrNothing ==
    [][/\ \A i \in 1..Len(loads) :
             /\ (loads[i].state = "pending" /\ loads'[i].state = "rejected") =>
                    /\ UNCHANGED <<allRecommendations, rendered>>
                    /\ recErrors' = recErrors + 1
             /\ (loads[i].state = "rejected" /\ loads'[i] # loads[i]) =>
                    UNCHANGED <<allRecommendations, rendered, recErrors>>
             /\ (loads'[i] # loads[i] /\ loads'[i].failed) =>
                    UNCHANGED <<allRecommendations, rendered>>
       /\ \A v \in {allRecommendations', rendered'} :
             v \notin {allRecommendations, rendered} =>
                 /\ v.load \in 1..Len(loads)
                 /\ loads[v.load].state = "pending"
                 /\ loads'[v.load].waiting = {}
                 /\ ~loads'[v.load].failed
                 /\ v.team = loads[v.load].team]_vars

C29_Witness ==
    /\ Len(loads) >= 2
    /\ loads[1].state = "rejected"
    /\ loads[1].waiting = {}
    /\ loads[2].state = "fulfilled"
    /\ recErrors = 1
    /\ allRecommendations.load = 2
    /\ rendered = allRecommendations

\* C15: every stopAutoRefresh call leaves no timer and refreshInterval null,
\* and a call made when nothing is running (so also the second of two calls in
\* a row) changes no state of the page.
C15_StopIdempotent ==
    [][stops' = stops + 1 =>
          /\ refreshInterval' = 0
          /\ timers' = {}
          /\ refreshInterval = 0 =>
                 UNCHANGED <<pageLoaded, refreshInterval, timers, nextTimerId,
                             startCalls, ticks, batches, inflight, display,
                             renderCount, errorCount>>]_vars

C15_Witness == stops = 2 /\ startCalls = 1 /\ refreshInterval = 0 /\ timers = {}

\* C19: a run of the interval callback never starts before a full interval
\* has gone by since the previous run started.
C19_TicksKeepInterval == lastGap = NoTick \/ lastGap >= REFRESH_INTERVAL

(***************************************************************************)
(*                           polling properties                            *)
(***************************************************************************)

\* C4: at most one interval timer is active, and it is the one refreshInterval
\* names; with refreshInterval null no timer is left, so nothing ticks.
C4_AtMostOneTimer ==
    /\ Cardinality(timers) <= 1
    /\ refreshInterval = 0 => timers = {}
    /\ refreshInterval # 0 => timers = {refreshInterval}

\* startAutoRefresh was called while running, then one stop halted everything.
C4_Witness ==
    /\ startCalls >= 2
    /\ nextTimerId = 2
    /\ stops = 1
    /\ timers = {}

\* C5: a load issued before a stopAutoRefresh call and settling after it leaves
\* its resource's display and render count as they were.
C5_LateResultsDiscarded ==
    [][\A r \in Resources : \A f \in inflight[r] \ inflight'[r] :
           f.epoch < stops =>
               (display'[r] = display[r] /\ renderCount'[r] = renderCount[r])]_vars

\* C6: every tick starts one load of each of the three resources in the same
\* step, and every load's outcome is counted exactly once, on its own resource:
\* renders + error-path runs + loads in flight = loader starts, per resource.
C6_TicksFanOutAndIsolate ==
    /\ [](\A r \in Resources :
             renderCount[r] + errorCount[r] + Cardinality(inflight[r]) = batches)
    /\ [][ticks' = ticks + 1 =>
             \A r \in Resources :
                 Cardinality(inflight'[r]) = Cardinality(inflight[r]) + 1]_vars

\* The initial load and a tick have settled; one resource failed every time,
\* another succeeded every time.
C6_Witness ==
    /\ ticks >= 1
    /\ \A r \in Resources : inflight[r] = {}
    /\ renderCount["status"] = 0 /\ errorCount["status"] = ticks + 1
    /\ errorCount["sales"] = 0 /\ renderCount["sales"] = ticks + 1

\* C7: a step in which polling starts (refreshInterval goes from null to a
\* timer) also issues a load of every resource.
C7_StartFetchesImmediately ==
    [][(refreshInterval = 0 /\ refreshInterval' # 0) =>
           \A r \in Resources : inflight'[r] \ inflight[r] # {}]_vars

(***************************************************************************)
(*                         transcript properties                           *)
(***************************************************************************)

CorruptStorage == {Garbage, NonListJson, ListJson(<<JunkEntry>>)}

\* C9: a page load that finds a corrupt persisted value leaves the transcript
\* an empty list.
C9_CorruptLoadsEmpty ==
    [][(reloads' = reloads + 1 /\ storage \in CorruptStorage)
           => chatHistory' = ArrayValue(<<>>)]_vars

C18_StorageFailuresSwallowed == uncaught = 0

\* C20: after every append whose save did not fail, the persisted value is a
\* list, the transcript in memory is that same list, and it holds at most 50
\* entries.
C20_MemoryEqualsPersisted ==
    [][(appended' # appended /\ appended' # <<>> /\ saveFailures' = saveFailures) =>
          /\ storage'.kind = "list"
          /\ chatHistory'.items = storage'.items
          /\ Len(chatHistory'.items) <= HistoryCap]_vars

JunkFree(items) == \A i \in 1..Len(items) : items[i] # JunkEntry

\* Even length, and every odd position holds a user entry followed by the
\* assistant's reply to that same message.
Alternates(items) ==
    /\ Len(items) % 2 = 0
    /\ \A i \in 1..Len(items) :
           IF i % 2 = 1
           THEN /\ items[i].role = "user"
                /\ i + 1 <= Len(items)
                /\ items[i + 1].n = items[i].n
           ELSE items[i].role = "assistant"

\* C24: a transcript that did not start from malformed entries has even
\* length and alternates user, assistant (the reply to that same message), in
\* memory and as persisted.
C24_TranscriptAlternates ==
    /\ (chatHistory.arr /\ JunkFree(chatHistory.items)) => Alternates(chatHistory.items)
    /\ (storage.kind = "list" /\ JunkFree(storage.items)) => Alternates(storage.items)

C24_Witness ==
    /\ storage.kind = "list"
    /\ Len(storage.items) = HistoryCap
    /\ storage.items[1].n > 1
    /\ Len(chatHistory.items) > HistoryCap
    /\ chatHistory.items[Len(chatHistory.items)].n = FirstMsg
    /\ \E i \in 1..Len(storage.items) : storage.items[i].n = FirstMsg + 1

\* C25: no entry of a failed chat request (answered "offline" or "error") is
\* in the transcript, in memory or persisted.
C25_FailedRequestAddsNothing ==
    /\ \A i \in 1..Len(chatHistory.items) : chatHistory.items[i].src \notin {"offline", "error"}
    /\ \A i \in 1..Len(storage.items) : storage.items[i].src \notin {"offline", "error"}

\* C26: a POST /chat goes out only in a step taken with a team selected and
\* backendAvailable true after the availability check has completed; a
\* sendMessage call with no team, or with backendAvailable false, puts no
\* request in flight.
C26_ChatRequestOnlyWithTeamAndBackend ==
    [][/\ (pending' \ pending # {}) =>
             (selectedTeam /\ backendAvailable /\ ~checking)
       /\ (nextMsg' = nextMsg + 1 /\ (~selectedTeam \/ ~backendAvailable)) =>
             pending' = pending]_vars

C26_Witness ==
    /\ reloads = 1
    /\ clears = 0
    /\ chatHistory.arr
    /\ nextMsg = FirstMsg + 2
    /\ pending = {FirstMsg + 1}
    /\ \A i \in 1..Len(appended) : appended[i].n # FirstMsg

====
